---------------------------- MODULE Spec2Model ----------------------------
(***************************************************************************)
(* Model of ivadomed's segmentation-pair loader                            *)
(* (ivadomed/loader/segmentation_pair.py) and of its mask post-processing  *)
(* transforms (ivadomed/postprocessing.py).                                *)
(*                                                                         *)
(* Numbers are fixed-point: the integer v stands for the real v / One, so  *)
(* that 0.5 and the cut-off 1e-3 of the transforms are integers.           *)
(***************************************************************************)
EXTENDS Integers, Sequences, FiniteSets, TLC

VARIABLES
    pc,            \* position of the caller: which call has returned
    predictions,   \* first argument of a post-processing transform
    arg,           \* its second argument (thr, structure, axis, mask)
    out,           \* value returned by the transform
    out2,          \* value returned by a second call on the first result, or
                   \* the slice index and coord passed to the last pair query
    pair,          \* the fields of the SegmentationPair object
    files          \* the converted files written next to a planar source file

vars == <<pc, predictions, arg, out, out2, pair, files>>

None == "None"

(***************************************************************************)
(* Fixed-point numbers.                                                    *)
(***************************************************************************)
\* the value 1 written by threshold_predictions
One == 1000
\* the cut-off thr=1e-3 used to binarize a soft input
LowThr == 1

\* bounds of the checked inputs
\* threshold: 1 x ThrLen arrays, values and thresholds k * (One \div 2), |k| <= MaxK
ThrLen == 2
MaxK == 3
\* keep_largest_object: arrays with at most MaxFg nonzero voxels
MaxFg == 3
\* fill_holes: binary volumes with at most MaxBg zero voxels
MaxBg == 2
\* lifted transforms: volumes with at most MaxLiftFg nonzero voxels
MaxLiftFg == 2
\* pairs: at most MaxChannels input files and MaxClasses ground-truth classes
MaxChannels == 2
MaxClasses == 2
\* slice indexes 0..MaxSliceIndex are asked for
MaxSliceIndex == 1
\* conversion: NumWorkers processes convert the same planar file, whose
\* 'PixelSize' is a scalar or a list of at most MaxPixelSizeLen numbers
NumWorkers == 2
MaxPixelSizeLen == 4

Abs(x) == IF x < 0 THEN -x ELSE x

\* x.astype(np.int): truncation toward zero
AsInt(x) == IF x >= 0 THEN (x \div One) * One ELSE -(((-x) \div One) * One)

(***************************************************************************)
(* Arrays: a shape (2 or 3 sizes) and a value for every index tuple.       *)
(***************************************************************************)
Idx(shape) ==
    IF Len(shape) = 2
    THEN {<<i, j>> : i \in 0..(shape[1] - 1), j \in 0..(shape[2] - 1)}
    ELSE {<<i, j, k>> : i \in 0..(shape[1] - 1), j \in 0..(shape[2] - 1),
                        k \in 0..(shape[3] - 1)}

\* position of an index tuple in the flattened (C-order) array
Rank(i, shape) ==
    IF Len(shape) = 2
    THEN i[1] * shape[2] + i[2]
    ELSE (i[1] * shape[2] + i[2]) * shape[3] + i[3]

Array(shape, f) == [shape |-> shape, data |-> f]

\* all arrays of a shape with values in a set
Arrays(shape, V) == {Array(shape, f) : f \in [Idx(shape) -> V]}

\* np.array_equal(a, a.astype(bool)): every value is 0 or 1
IsBinary(a) == \A i \in DOMAIN a.data : a.data[i] \in {0, One}

(***************************************************************************)
(* nibabel containers: the sample array and the affine.                    *)
(***************************************************************************)
Nifti1Image(dataobj, affine) == [dataobj |-> dataobj, affine |-> affine]

IsNifti(x) == "affine" \in DOMAIN x

(***************************************************************************)
(* threshold_predictions                                                   *)
(***************************************************************************)
\* a variant that does not recompute the index mask before writing the ones
threshold_stale_mask(p, thr) ==
    Array(p.shape,
          [i \in DOMAIN p.data |-> AsInt(IF p.data[i] < thr THEN One ELSE p.data[i])])

threshold_raw(p, thr) ==
    LET low  == [i \in DOMAIN p.data |-> IF p.data[i] < thr THEN 0 ELSE p.data[i]]
        high == [i \in DOMAIN p.data |-> IF low[i] >= thr THEN One ELSE low[i]]
    IN  Array(p.shape, [i \in DOMAIN p.data |-> AsInt(high[i])])


\* np.copy
np_copy(a) == a

\* the decorator: on a container, apply the wrapper to a copy of its sample
\* array and rewrap with the container's affine; otherwise call the function
eye4 == <<<<1, 0, 0, 0>>, <<0, 1, 0, 0>>, <<0, 0, 1, 0>>, <<0, 0, 0, 1>>>>

\* a rewrap that forgets the container's affine
rewrap_eye(res, data) == Nifti1Image(res, eye4)

\* nib.Nifti1Image(<result>, data.affine)
rewrap(res, data) == Nifti1Image(res, data.affine)

\* Every transform is decorated with nifti_capable: on a container the
\* wrapper calls itself on a copy of the sample array and rewraps the result
\* with the container's affine; on an array it calls the function.
threshold_predictions(p, thr) ==
    IF IsNifti(p)
    THEN rewrap(threshold_raw(np_copy(p.dataobj), thr), p)
    ELSE threshold_raw(p, thr)

(***************************************************************************)
(* Specification SpecThr: threshold_predictions on arrays, applied once    *)
(* and then once more to its own result.                                   *)
(***************************************************************************)
Half == One \div 2

ThrValues == {k * Half : k \in (-MaxK)..MaxK}

InitThr ==
    /\ pc = "start"
    /\ predictions \in Arrays(<<1, ThrLen>>, ThrValues)
    /\ arg \in ThrValues
    /\ out = None
    /\ out2 = None
    /\ pair = None
    /\ files = None

CallThreshold ==
    /\ pc = "start"
    /\ out' = threshold_predictions(predictions, arg)
    /\ pc' = "called"
    /\ UNCHANGED <<predictions, arg, out2, pair, files>>

CallThresholdAgain ==
    /\ pc = "called"
    /\ out2' = threshold_predictions(out, arg)
    /\ pc' = "again"
    /\ UNCHANGED <<predictions, arg, out, pair, files>>

NextThr == CallThreshold \/ CallThresholdAgain

SpecThr == InitThr /\ [][NextThr]_vars

\* C4 (as claimed): for every array and every thr the result has the input's
\* shape and is 1 exactly where the input is >= thr, 0 elsewhere.
C4_ThresholdIsIndicator ==
    pc # "start" =>
        /\ out.shape = predictions.shape
        /\ \A i \in Idx(predictions.shape) :
              out.data[i] = IF predictions.data[i] >= arg THEN One ELSE 0

\* C5 (as claimed): thresholding the thresholded array again with the same
\* thr gives the thresholded array, for every thr.
C5_IdempotentAnyThr == pc = "again" => out2 = out

\* C5 (amended): thresholding is idempotent for every thr <= 1.
C5_IdempotentUpToOne == (pc = "again" /\ arg <= One) => out2 = out

C5_Witness ==
    /\ pc = "again"
    /\ arg <= One
    /\ arg > 0
    /\ \E i, j \in Idx(out.shape) : out.data[i] = 0 /\ out.data[j] = One
    /\ out2 = out

(***************************************************************************)
(* mask_predictions                                                        *)
(***************************************************************************)
AssertionError == "AssertionError"

\* a variant that returns the mask in place of the masked values
mask_as_binary(p, mask_binary) ==
    IF p.shape # mask_binary.shape \/ ~IsBinary(mask_binary)
    THEN AssertionError
    ELSE mask_binary

mask_raw(p, mask_binary) ==
    IF p.shape # mask_binary.shape \/ ~IsBinary(mask_binary)
    THEN AssertionError
    ELSE Array(p.shape,
               [i \in DOMAIN p.data |-> (p.data[i] * mask_binary.data[i]) \div One])

mask_predictions(p, mask_binary) ==
    IF IsNifti(p)
    THEN rewrap(mask_raw(np_copy(p.dataobj), mask_binary), p)
    ELSE mask_raw(p, mask_binary)

(***************************************************************************)
(* scipy.ndimage label, called with its default structuring element: two   *)
(* nonzero voxels are neighbours when they differ by one step on one axis. *)
(* Labels are numbered in the order in which a scan of the flattened array *)
(* first meets each object.                                                *)
(***************************************************************************)
Dist1(a, b) ==
    IF Len(a) = 2
    THEN Abs(a[1] - b[1]) + Abs(a[2] - b[2])
    ELSE Abs(a[1] - b[1]) + Abs(a[2] - b[2]) + Abs(a[3] - b[3])

DistMax(a, b) ==
    LET m(x, y) == IF x > y THEN x ELSE y
    IN  IF Len(a) = 2
        THEN m(Abs(a[1] - b[1]), Abs(a[2] - b[2]))
        ELSE m(m(Abs(a[1] - b[1]), Abs(a[2] - b[2])), Abs(a[3] - b[3]))

\* neighbours under the full (8- / 26-connected) structuring element
FullNeighbours(a, b) == DistMax(a, b) = 1

\* neighbours under label's default structuring element
LabelNeighbours(a, b) == Dist1(a, b) = 1

RECURSIVE LabelGrow(_, _)
LabelGrow(S, F) ==
    LET N == {f \in F \ S : \E s \in S : LabelNeighbours(s, f)}
    IN  IF N = {} THEN S ELSE LabelGrow(S \cup N, F)

label(a) ==
    LET F == {i \in DOMAIN a.data : a.data[i] # 0}
        Obj(v) == LabelGrow({v}, F)
        First(v) == CHOOSE r \in {Rank(w, a.shape) : w \in Obj(v)} :
                        \A w \in Obj(v) : r <= Rank(w, a.shape)
        Firsts == {First(v) : v \in F}
        Id == [v \in F |-> Cardinality({r \in Firsts : r <= First(v)})]
    IN  [labeled_obj |-> [i \in DOMAIN a.data |-> IF i \in F THEN Id[i] ELSE 0],
         num_obj |-> Cardinality(Firsts)]

\* np.bincount(labeled_obj.flat)[1:]
bincount(labeled, n) ==
    [l \in 1..n |-> Cardinality({i \in DOMAIN labeled : labeled[i] = l})]

\* a last-maximum variant of argmax
argmax_last(counts) ==
    CHOOSE l \in DOMAIN counts :
        \A m \in DOMAIN counts :
            counts[l] > counts[m] \/ (counts[l] = counts[m] /\ l >= m)

\* counts.argmax() + 1: the first label with the largest count
argmax(counts) ==
    CHOOSE l \in DOMAIN counts :
        \A m \in DOMAIN counts :
            counts[l] > counts[m] \/ (counts[l] = counts[m] /\ l <= m)

(***************************************************************************)
(* keep_largest_object                                                     *)
(***************************************************************************)
keep_largest_object_raw(p, unused) ==
    LET proc0 == IF IsBinary(p) THEN np_copy(p) ELSE threshold_predictions(p, LowThr)
        lab   == label(np_copy(proc0))
        keep  == argmax(bincount(lab.labeled_obj, lab.num_obj))
        proc1 == IF lab.num_obj > 1
                 THEN Array(p.shape,
                            [i \in DOMAIN p.data |->
                                IF lab.labeled_obj[i] # keep THEN 0 ELSE proc0.data[i]])
                 ELSE proc0
    IN  IF IsBinary(p) THEN proc1 ELSE mask_predictions(p, proc1)

keep_largest_object(p) ==
    IF IsNifti(p)
    THEN rewrap(keep_largest_object_raw(np_copy(p.dataobj), None), p)
    ELSE keep_largest_object_raw(p, None)

(***************************************************************************)
(* Specification SpecKeep: keep_largest_object on 2D and 3D arrays, binary *)
(* and soft, with at most MaxFg nonzero voxels.                            *)
(***************************************************************************)
\* the subsets of S with at most n elements
RECURSIVE SubsetsUpTo(_, _)
SubsetsUpTo(S, n) ==
    IF n = 0
    THEN {{}}
    ELSE LET P == SubsetsUpTo(S, n - 1)
         IN  P \cup {T \cup {x} : T \in P, x \in S}

\* arrays of a shape whose nonzero voxels are at most n and take values in V
SparseArrays(shape, V, n) ==
    UNION { {Array(shape, [i \in Idx(shape) |-> IF i \in S THEN g[i] ELSE 0]) :
                g \in [S -> V]} :
            S \in SubsetsUpTo(Idx(shape), n) }

KeepShapes == {<<3, 3>>, <<2, 2, 2>>}

KeepValues == {One, Half, -Half}

InitKeep ==
    /\ pc = "start"
    /\ \E shape \in KeepShapes : predictions \in SparseArrays(shape, KeepValues, MaxFg)
    /\ arg = None
    /\ out = None
    /\ out2 = None
    /\ pair = None
    /\ files = None

CallKeepLargest ==
    /\ pc = "start"
    /\ out' = keep_largest_object(predictions)
    /\ pc' = "called"
    /\ UNCHANGED <<predictions, arg, out2, pair, files>>

NextKeep == CallKeepLargest

SpecKeep == InitKeep /\ [][NextKeep]_vars

\* the support mask of an array: the voxels that survive the 1e-3 cut-off
Support(p) == {i \in Idx(p.shape) : p.data[i] >= LowThr}

RECURSIVE FaceReach(_, _)
FaceReach(S, F) ==
    LET N == {f \in F \ S : \E s \in S : Dist1(s, f) = 1}
    IN  IF N = {} THEN S ELSE FaceReach(S \cup N, F)

\* the face-connected components of a set of voxels
FaceComponents(F) == {FaceReach({v}, F) : v \in F}

FirstRank(C, shape) ==
    CHOOSE r \in {Rank(w, shape) : w \in C} : \A w \in C : r <= Rank(w, shape)

\* the component with the most voxels, the first met by a scan among equals
LargestComponent(p) ==
    LET Cs == FaceComponents(Support(p))
    IN  CHOOSE C \in Cs : \A D \in Cs :
            \/ Cardinality(C) > Cardinality(D)
            \/ /\ Cardinality(C) = Cardinality(D)
               /\ FirstRank(C, p.shape) <= FirstRank(D, p.shape)

Kept(o) == {i \in Idx(o.shape) : o.data[i] # 0}

\* C6: with more than one component in the support mask the result is zero
\* outside the largest component (the lowest label among equals) and the
\* original value inside it; with zero or one component every voxel of the
\* support keeps its original value.
C6_KeepsLargestComponent ==
    pc = "called" =>
        LET Cs == FaceComponents(Support(predictions))
            K  == IF Cardinality(Cs) > 1
                  THEN LargestComponent(predictions)
                  ELSE Support(predictions)
        IN  /\ out.shape = predictions.shape
            /\ \A i \in Idx(predictions.shape) :
                  out.data[i] = IF i \in K THEN predictions.data[i] ELSE 0

\* two components of equal size and a soft value: the tie goes to the first
C6_Witness ==
    /\ pc = "called"
    /\ ~IsBinary(predictions)
    /\ LET Cs == FaceComponents(Support(predictions))
       IN  /\ Cardinality(Cs) > 1
           /\ \A C, D \in Cs : Cardinality(C) = Cardinality(D)
    /\ \E i \in Kept(out) : out.data[i] = Half
    /\ Kept(out) # Support(predictions)

CrossElement(a, b, structure) == Dist1(a, b) = 1

\* np.ones(structure): b lies in the box of that shape centred on a
OnesElement(a, b, structure) ==
    /\ a # b
    /\ \A k \in 1..Len(a) : Abs(a[k] - b[k]) <= structure[k] \div 2

\* the box centred on a reaches outside the array
TouchesOutside(a, shape, structure) ==
    \E k \in 1..Len(a) :
        /\ structure[k] \div 2 >= 1
        /\ a[k] = 0 \/ a[k] = shape[k] - 1

RECURSIVE Flood(_, _, _)
Flood(S, B, structure) ==
    LET N == {b \in B \ S : \E s \in S : OnesElement(s, b, structure)}
    IN  IF N = {} THEN S ELSE Flood(S \cup N, B, structure)

binary_fill_holes(a, structure) ==
    LET B == {i \in DOMAIN a.data : a.data[i] = 0}
        reached == Flood({b \in B : TouchesOutside(b, a.shape, structure)}, B, structure)
    IN  Array(a.shape, [i \in DOMAIN a.data |-> IF i \in reached THEN 0 ELSE One])

fill_holes_raw(p, structure) ==
    LET proc0 == IF IsBinary(p) THEN np_copy(p) ELSE threshold_predictions(p, LowThr)
        proc1 == binary_fill_holes(np_copy(proc0), structure)
    IN  IF Len(structure) # Len(p.shape)
        THEN AssertionError
        ELSE IF IsBinary(p) THEN proc1 ELSE mask_predictions(p, proc1)

fill_holes(p, structure) ==
    IF IsNifti(p)
    THEN rewrap(fill_holes_raw(np_copy(p.dataobj), structure), p)
    ELSE fill_holes_raw(p, structure)

(***************************************************************************)
(* Specification SpecFill: fill_holes on binary volumes.                   *)
(***************************************************************************)
FillShape == <<3, 3, 4>>

FillStructures == {<<3, 3, 3>>, <<1, 1, 1>>, <<3, 3>>}

\* binary arrays of a shape with at most n zero voxels
SolidArrays(shape, n) ==
    {Array(shape, [i \in Idx(shape) |-> IF i \in S THEN 0 ELSE One]) :
        S \in SubsetsUpTo(Idx(shape), n)}

InitFill ==
    /\ pc = "start"
    /\ predictions \in SolidArrays(FillShape, MaxBg)
    /\ arg \in FillStructures
    /\ out = None
    /\ out2 = None
    /\ pair = None
    /\ files = None

CallFillHoles ==
    /\ pc = "start"
    /\ out' = fill_holes(predictions, arg)
    /\ pc' = "called"
    /\ UNCHANGED <<predictions, arg, out2, pair, files>>

NextFill == CallFillHoles

SpecFill == InitFill /\ [][NextFill]_vars

OnBorder(i, shape) == \E k \in 1..Len(i) : i[k] = 0 \/ i[k] = shape[k] - 1

RECURSIVE FullReach(_, _)
FullReach(S, F) ==
    LET N == {f \in F \ S : \E s \in S : DistMax(s, f) = 1}
    IN  IF N = {} THEN S ELSE FullReach(S \cup N, F)

\* the background voxels joined to the array border through background
Exterior(p) ==
    LET B == {i \in Idx(p.shape) : p.data[i] = 0}
    IN  {b \in B : \E c \in FullReach({b}, B) : OnBorder(c, p.shape)}

\* C8: for a binary 3D input and the (3,3,3) structure the result is binary,
\* of the same shape, 1 on every foreground voxel and on every background
\* voxel not joined to the border through background, 0 on the others.
C8_FillHolesClosesVoids ==
    (pc = "called" /\ arg = <<3, 3, 3>> /\ IsBinary(predictions)) =>
        /\ out.shape = predictions.shape
        /\ \A i \in Idx(predictions.shape) :
              out.data[i] = IF i \in Exterior(predictions) THEN 0 ELSE One

\* an enclosed void is closed while a notch in the border stays open
C8_Witness ==
    /\ pc = "called"
    /\ arg = <<3, 3, 3>>
    /\ IsBinary(predictions)
    /\ \E i, j \in Idx(predictions.shape) :
          /\ predictions.data[i] = 0 /\ out.data[i] = One
          /\ predictions.data[j] = 0 /\ out.data[j] = 0

(***************************************************************************)
(* keep_largest_object_per_slice (3D input)                                *)
(***************************************************************************)
\* the index of a voxel within its slice, and back
DropAxis(x, axis) ==
    IF axis = 0 THEN <<x[2], x[3]>>
    ELSE IF axis = 1 THEN <<x[1], x[3]>>
    ELSE <<x[1], x[2]>>

PutAxis(y, axis, n) ==
    IF axis = 0 THEN <<n, y[1], y[2]>>
    ELSE IF axis = 1 THEN <<y[1], n, y[2]>>
    ELSE <<y[1], y[2], n>>

\* np.squeeze(np.split(p, p.shape[axis], axis)[n], axis)
SliceAt(p, axis, n) ==
    LET sh == DropAxis(p.shape, axis)
    IN  Array(sh, [y \in Idx(sh) |-> p.data[PutAxis(y, axis, n)]])

keep_largest_object_per_slice_raw(p, axis) ==
    LET list_preds_out ==
            [n \in 0..(p.shape[axis + 1] - 1) |-> keep_largest_object(SliceAt(p, axis, n))]
    IN  \* np.stack(list_preds_out, axis)
        Array(p.shape,
              [x \in DOMAIN p.data |->
                  list_preds_out[x[axis + 1]].data[DropAxis(x, axis)]])

keep_largest_object_per_slice(p, axis) ==
    IF IsNifti(p)
    THEN rewrap(keep_largest_object_per_slice_raw(np_copy(p.dataobj), axis), p)
    ELSE keep_largest_object_per_slice_raw(p, axis)

(***************************************************************************)
(* Specification SpecLift: each transform called once, on a raw volume or  *)
(* on a container holding it.                                              *)
(***************************************************************************)
LiftShape == <<2, 2, 2>>

LiftValues == {One, Half}

Affines == {eye4,
            <<<<-2, 0, 0, 90>>, <<0, 2, 0, -126>>, <<0, 0, 2, -72>>, <<0, 0, 0, 1>>>>}

LiftMasks(a) == {Array(a.shape, [i \in DOMAIN a.data |-> One]), threshold_raw(a, Half)}

InitLift ==
    /\ pc = "start"
    /\ \E a \in SparseArrays(LiftShape, LiftValues, MaxLiftFg) :
          \/ predictions = a
          \/ \E aff \in Affines : predictions = [dataobj |-> a, affine |-> aff]
    /\ arg = None
    /\ out = None
    /\ out2 = None
    /\ pair = None
    /\ files = None

Raw(x) == IF IsNifti(x) THEN x.dataobj ELSE x

LiftThreshold ==
    /\ pc = "start"
    /\ \E thr \in {LowThr, Half, One} :
          /\ arg' = thr
          /\ out' = threshold_predictions(predictions, thr)
    /\ pc' = "threshold_predictions"
    /\ UNCHANGED <<predictions, out2, pair, files>>

LiftKeepLargest ==
    /\ pc = "start"
    /\ out' = keep_largest_object(predictions)
    /\ pc' = "keep_largest_object"
    /\ UNCHANGED <<predictions, arg, out2, pair, files>>

LiftKeepLargestPerSlice ==
    /\ pc = "start"
    /\ \E axis \in 0..2 :
          /\ arg' = axis
          /\ out' = keep_largest_object_per_slice(predictions, axis)
    /\ pc' = "keep_largest_object_per_slice"
    /\ UNCHANGED <<predictions, out2, pair, files>>

LiftFillHoles ==
    /\ pc = "start"
    /\ arg' = <<3, 3, 3>>
    /\ out' = fill_holes(predictions, <<3, 3, 3>>)
    /\ pc' = "fill_holes"
    /\ UNCHANGED <<predictions, out2, pair, files>>

LiftMask ==
    /\ pc = "start"
    /\ \E m \in LiftMasks(Raw(predictions)) :
          /\ arg' = m
          /\ out' = mask_predictions(predictions, m)
    /\ pc' = "mask_predictions"
    /\ UNCHANGED <<predictions, out2, pair, files>>

NextLift ==
    \/ LiftThreshold
    \/ LiftKeepLargest
    \/ LiftKeepLargestPerSlice
    \/ LiftFillHoles
    \/ LiftMask

SpecLift == InitLift /\ [][NextLift]_vars

\* the transform named by pc, applied to a raw array
OnArray(name, a, x) ==
    CASE name = "threshold_predictions" -> threshold_raw(a, x)
      [] name = "keep_largest_object" -> keep_largest_object_raw(a, x)
      [] name = "keep_largest_object_per_slice" -> keep_largest_object_per_slice_raw(a, x)
      [] name = "fill_holes" -> fill_holes_raw(a, x)
      [] name = "mask_predictions" -> mask_raw(a, x)

\* C9: a call of a transform on a container returns a container with the
\* same affine whose data is the transform of the container's array, a call
\* on a raw array returns a raw array, and the argument is left as it was.
C9_LiftPreservesAffine ==
    [][(pc = "start" /\ pc' # "start") =>
          /\ predictions' = predictions
          /\ IF IsNifti(predictions)
             THEN /\ IsNifti(out')
                  /\ out'.affine = predictions.affine
                  /\ out'.dataobj = OnArray(pc', predictions.dataobj, arg')
             ELSE /\ ~IsNifti(out')
                  /\ out' = OnArray(pc', predictions, arg')]_vars

\* a container with a non-identity affine went through keep-largest-per-slice
\* and lost a voxel
C9_Witness ==
    /\ pc = "keep_largest_object_per_slice"
    /\ IsNifti(predictions)
    /\ predictions.affine # eye4
    /\ IsNifti(out)
    /\ out.dataobj # predictions.dataobj

(***************************************************************************)
(* SegmentationPair.                                                       *)
(*                                                                         *)
(* A volume (nibabel image) is its header's data shape and zooms, its      *)
(* sample array, the axis order `axes` that nib.as_closest_canonical gives *)
(* it (read off its affine), and whether get_fdata has cached the decoded  *)
(* array.  Python's dynamically typed values are tagged records: a         *)
(* ground-truth entry is None, a str or a list, a handle is None, an image *)
(* or a list of images.                                                    *)
(***************************************************************************)
NoneEntry == [kind |-> "None"]
StrEntry(f) == [kind |-> "str", name |-> f]
ListEntry(fs) == [kind |-> "list", items |-> fs]
TupleEntry(t) == [kind |-> "tuple", value |-> t]

Range(q) == {q[k] : k \in 1..Len(q)}

SeqsUpTo(S, lo, hi) == UNION {[1..n -> S] : n \in lo..hi}

Volume(shape, zooms, axes, f) ==
    [shape |-> shape, zooms |-> zooms, axes |-> axes, cached |-> FALSE,
     data |-> [i \in Idx(shape) |-> f[i]]]

\* the files on disk: two input contrasts of different shapes, two raters of
\* one class, a lesion mask of the other shape, and a mask stored with its
\* first two axes exchanged
InputFiles == {"sub-01_T1w.nii.gz", "sub-02_T2w.nii.gz"}

GtFiles == {"seg_rater1.nii.gz", "seg_rater2.nii.gz", "lesion.nii.gz", "seg_rotated.nii.gz"}

Disk(filename) ==
    CASE filename = "sub-01_T1w.nii.gz" ->
            Volume(<<1, 2, 2>>, <<10, 5, 20>>, <<1, 2, 3>>,
                   [i \in Idx(<<1, 2, 2>>) |-> 100 * (1 + Rank(i, <<1, 2, 2>>))])
      [] filename = "sub-02_T2w.nii.gz" ->
            Volume(<<2, 1, 2>>, <<5, 10, 20>>, <<1, 2, 3>>,
                   [i \in Idx(<<2, 1, 2>>) |-> 100 * (7 - Rank(i, <<2, 1, 2>>))])
      [] filename = "seg_rater1.nii.gz" ->
            Volume(<<1, 2, 2>>, <<10, 5, 20>>, <<1, 2, 3>>,
                   [i \in Idx(<<1, 2, 2>>) |-> IF i[2] = 0 THEN One ELSE 0])
      [] filename = "seg_rater2.nii.gz" ->
            Volume(<<1, 2, 2>>, <<10, 5, 20>>, <<1, 2, 3>>,
                   [i \in Idx(<<1, 2, 2>>) |-> IF i[3] = 0 THEN One ELSE 0])
      [] filename = "lesion.nii.gz" ->
            Volume(<<2, 1, 2>>, <<5, 10, 20>>, <<1, 2, 3>>,
                   [i \in Idx(<<2, 1, 2>>) |-> IF i[1] = 0 THEN One ELSE 0])
      [] filename = "seg_rotated.nii.gz" ->
            Volume(<<1, 2, 2>>, <<5, 10, 20>>, <<2, 1, 3>>,
                   [i \in Idx(<<1, 2, 2>>) |-> IF i[2] = 1 THEN One ELSE 0])

\* the JSON sidecar of an input file
Sidecar(filename) ==
    IF filename = "sub-01_T1w.nii.gz"
    THEN [contrast |-> "T1w", bounding_box |-> <<0, 1, 0, 2, 0, 2>>]
    ELSE [contrast |-> "T2w"]

\* read_file: every file here has a '.nii.gz' extension and is loaded as is
read_file(filename) == Disk(filename)

\* imed_loader_utils.orient_shapes_hwd: the slice axis becomes the last one
orient_shapes_hwd(t, slice_axis) ==
    IF slice_axis = 0 THEN <<t[3], t[2], t[1]>>
    ELSE IF slice_axis = 1 THEN <<t[3], t[1], t[2]>>
    ELSE t

\* imed_loader_utils.orient_img_hwd: the same permutation applied to the array
orient_img_hwd(a, slice_axis) ==
    LET sh == orient_shapes_hwd(a.shape, slice_axis)
    IN  Array(sh, [x \in Idx(sh) |->
                     IF slice_axis = 0 THEN a.data[<<x[3], x[2], x[1]>>]
                     ELSE IF slice_axis = 1 THEN a.data[<<x[2], x[3], x[1]>>]
                     ELSE a.data[x]])

\* nib.as_closest_canonical: a new image whose axes are in canonical order
as_closest_canonical(img) ==
    LET sh == <<img.shape[img.axes[1]], img.shape[img.axes[2]], img.shape[img.axes[3]]>>
        old(x) == [j \in 1..3 |-> x[CHOOSE k \in 1..3 : img.axes[k] = j]]
    IN  [shape |-> sh,
         zooms |-> <<img.zooms[img.axes[1]], img.zooms[img.axes[2]], img.zooms[img.axes[3]]>>,
         axes |-> <<1, 2, 3>>,
         cached |-> FALSE,
         data |-> [x \in Idx(sh) |-> img.data[old(x)]]]

\* the images of a handle entry, a single image counting as a list of one
Raters(gt) ==
    IF gt.kind = "None" THEN <<>>
    ELSE IF gt.kind = "img" THEN <<gt.img>>
    ELSE gt.imgs

RECURSIVE Flatten(_)
Flatten(qs) == IF qs = <<>> THEN <<>> ELSE Head(qs) \o Flatten(Tail(qs))

Raised(e) == [raised |-> e]
Returned(v) == [returned |-> v]
IsRaised(r) == "raised" \in DOMAIN r

\* the test made after each append to a list of shapes: an error when the
\* set of the shapes collected so far is empty
ShapesRejected(shapes) == Cardinality(Range(shapes)) = 0

get_pair_shapes(input_handle, gt_handle, slice_axis) ==
    LET input_shape == [k \in 1..Len(input_handle) |->
                           orient_shapes_hwd(input_handle[k].shape, slice_axis)]
        gt_lists == [c \in 1..Len(gt_handle) |->
                        [r \in 1..Len(Raters(gt_handle[c])) |->
                            orient_shapes_hwd(Raters(gt_handle[c])[r].shape, slice_axis)]]
        \* gt_shape as it stands after the class c
        gt_upto(c) == Flatten(SubSeq(gt_lists, 1, c))
        gt_shape == gt_upto(Len(gt_handle))
    IN  IF \E k \in 1..Len(input_handle) : ShapesRejected(SubSeq(input_shape, 1, k))
        THEN Raised("RuntimeError: Inputs have different dimensions.")
        ELSE IF \E c \in 1..Len(gt_handle) :
                    gt_handle[c].kind # "None" /\ ShapesRejected(gt_upto(c))
        THEN Raised("RuntimeError: Labels have different dimensions.")
        ELSE Returned([input |-> input_shape[1],
                       gt |-> IF Len(gt_shape) > 0
                              THEN TupleEntry(gt_shape[1]) ELSE NoneEntry])

\* np.allclose(a, b) on two shapes: |a - b| <= 1e-8 + 1e-5 * |b| elementwise
allclose(a, b) ==
    \A k \in 1..Len(a) : Abs(a[k] - b[k]) * 100000000 <= 1 + 1000 * Abs(b[k])

DictSet(d, key, v) == [k \in DOMAIN d \cup {key} |-> IF k = key THEN v ELSE d[k]]

\* the handle of one ground-truth entry
GtHandle(gt) ==
    IF gt.kind = "None" THEN NoneEntry
    ELSE IF gt.kind = "str" THEN [kind |-> "img", img |-> read_file(gt.name)]
    ELSE [kind |-> "list", imgs |-> [r \in 1..Len(gt.items) |-> read_file(gt.items[r])]]

CanonicalHandle(h) ==
    IF h.kind = "None" THEN h
    ELSE IF h.kind = "img" THEN [kind |-> "img", img |-> as_closest_canonical(h.img)]
    ELSE [kind |-> "list", imgs |-> [r \in 1..Len(h.imgs) |-> as_closest_canonical(h.imgs[r])]]

\* SegmentationPair.__init__: the object built, or the error raised
SegmentationPair(a) ==
    LET input_handle == [k \in 1..Len(a.input_filenames) |-> read_file(a.input_filenames[k])]
        gt_handle == IF a.gt_filenames.kind = "None" THEN <<>>
                     ELSE [c \in 1..Len(a.gt_filenames.items) |->
                              GtHandle(a.gt_filenames.items[c])]
        shapes == get_pair_shapes(input_handle, gt_handle, a.slice_axis)
        n == IF Len(a.metadata) < Len(a.input_filenames)
             THEN Len(a.metadata) ELSE Len(a.input_filenames)
        metadata == IF Len(a.metadata) > 0
                    THEN [k \in 1..n |->
                            DictSet(DictSet(a.metadata[k], "input_filenames",
                                            a.input_filenames[k]),
                                    "gt_filenames", a.gt_filenames)]
                    ELSE a.metadata
    IN  IF \E k \in 1..Len(input_handle) : Len(input_handle[k].shape) > 3
        THEN Raised("RuntimeError: 4-dimensional volumes not supported.")
        ELSE IF IsRaised(shapes) THEN shapes
        ELSE IF a.gt_filenames.kind # "None" /\ Len(a.gt_filenames.items) = 0
        THEN Raised("IndexError: list index out of range")
        ELSE IF /\ a.gt_filenames.kind # "None"
                /\ a.gt_filenames.items[1].kind # "None"
                /\ ~allclose(shapes.returned.input, shapes.returned.gt.value)
        THEN Raised("RuntimeError: Input and ground truth with different dimensions.")
        ELSE Returned([input_filenames |-> a.input_filenames,
                       gt_filenames |-> a.gt_filenames,
                       metadata |-> metadata,
                       cache |-> a.cache,
                       slice_axis |-> a.slice_axis,
                       input_handle |-> [k \in 1..Len(input_handle) |->
                                            as_closest_canonical(input_handle[k])],
                       gt_handle |-> [c \in 1..Len(gt_handle) |->
                                         CanonicalHandle(gt_handle[c])]])

(***************************************************************************)
(* get_pair_data                                                           *)
(***************************************************************************)
\* handle.get_fdata(cache_mode, dtype=np.float32)
get_fdata(img) == Array(img.shape, img.data)

\* the image after get_fdata('fill') or get_fdata('unchanged')
AfterGetFdata(img, cache) == [img EXCEPT !.cached = @ \/ cache]

\* a zero array with the shape as stored, not oriented
zeros_unoriented(shape, slice_axis) == Array(shape, [i \in Idx(shape) |-> 0])

\* np.zeros(orient_shapes_hwd(shape, slice_axis)).astype(np.uint8)
zeros_oriented(shape, slice_axis) ==
    LET sh == orient_shapes_hwd(shape, slice_axis)
    IN  Array(sh, [i \in Idx(sh) |-> 0])

get_pair_data(self) ==
    LET input_data == [k \in 1..Len(self.input_handle) |->
                          orient_img_hwd(get_fdata(self.input_handle[k]), self.slice_axis)]
        gt_entry(gt) ==
            IF gt.kind = "img"
            THEN [kind |-> "array",
                  array |-> orient_img_hwd(get_fdata(gt.img), self.slice_axis)]
            ELSE IF gt.kind = "list"
            THEN [kind |-> "list",
                  arrays |-> [r \in 1..Len(gt.imgs) |->
                                orient_img_hwd(get_fdata(gt.imgs[r]), self.slice_axis)]]
            ELSE [kind |-> "array",
                  array |-> zeros_oriented(self.input_handle[1].shape, self.slice_axis)]
    IN  [input |-> input_data,
         gt |-> [c \in 1..Len(self.gt_handle) |-> gt_entry(self.gt_handle[c])]]

\* the object after get_pair_data: decoded arrays are cached in the images
AfterGetPairData(self) ==
    LET after(h) ==
            IF h.kind = "None" THEN h
            ELSE IF h.kind = "img"
            THEN [h EXCEPT !.img = AfterGetFdata(@, self.cache)]
            ELSE [h EXCEPT !.imgs = [r \in 1..Len(@) |-> AfterGetFdata(@[r], self.cache)]]
    IN  [self EXCEPT
            !.input_handle = [k \in 1..Len(@) |-> AfterGetFdata(@[k], self.cache)],
            !.gt_handle = [c \in 1..Len(@) |-> after(@[c])]]

(***************************************************************************)
(* get_pair_metadata.  The bundle it returns holds Python objects, and two *)
(* entries may be one and the same object: the objects created by the call *)
(* are numbered in the order of their creation, and an entry of            *)
(* gt_metadata or input_metadata is the number of its object (0 for None). *)
(* An object is a SampleMetadata with its dictionary, or a list of object  *)
(* numbers (the raters of one class).                                      *)
(***************************************************************************)
Overlay(d, m) == [k \in DOMAIN d \cup DOMAIN m |-> IF k \in DOMAIN m THEN m[k] ELSE d[k]]

SampleMetadata(d) == [kind |-> "SampleMetadata", d |-> d]

RECURSIVE SumTo(_, _)
SumTo(f, n) == IF n = 0 THEN 0 ELSE f[n] + SumTo(f, n - 1)

\* metadata["slice_index"] = slice_index; metadata["coord"] = coord
set_slice_context(metadata, slice_index, coord) ==
    DictSet(DictSet(metadata, "slice_index", slice_index), "coord", coord)

get_pair_metadata(self, slice_index, coord) ==
    LET nc == Len(self.gt_handle)
        cnt == [c \in 1..nc |->
                   IF self.gt_handle[c].kind = "None" THEN 0
                   ELSE IF self.gt_handle[c].kind = "img" THEN 1
                   ELSE Len(self.gt_handle[c].imgs) + 1]
        off(c) == SumTo(cnt, c - 1)
        ngt == SumTo(cnt, nc)
        bbox == IF "bounding_box" \in DOMAIN self.metadata[1]
                THEN TupleEntry(self.metadata[1]["bounding_box"]) ELSE NoneEntry
        gt_meta(img, names) ==
            SampleMetadata([zooms |-> orient_shapes_hwd(img.zooms, self.slice_axis),
                            data_shape |-> orient_shapes_hwd(img.shape, self.slice_axis),
                            gt_filenames |-> names,
                            bounding_box |-> bbox,
                            data_type |-> "gt",
                            crop_params |-> <<>>])
        class_of(id) == CHOOSE c \in 1..nc : off(c) < id /\ id <= off(c) + cnt[c]
        gt_object(id) ==
            LET c == class_of(id)
                gt == self.gt_handle[c]
                r == id - off(c)
            IN  IF gt.kind = "img"
                THEN gt_meta(gt.img, self.metadata[1]["gt_filenames"])
                ELSE IF r <= Len(gt.imgs)
                THEN gt_meta(gt.imgs[r],
                             StrEntry(self.metadata[1]["gt_filenames"].items[c].items[r]))
                ELSE [kind |-> "list", items |-> [q \in 1..Len(gt.imgs) |-> off(c) + q]]
        \* gt_meta_dict before the null entries are replaced
        appended == [c \in 1..nc |-> IF cnt[c] = 0 THEN 0 ELSE off(c) + cnt[c]]
        present == {c \in 1..nc : appended[c] # 0}
        first == appended[CHOOSE c \in present : \A d \in present : c <= d]
        \* gt_meta_dict[idx] = list(filter(None, gt_meta_dict))[0]
        gt_meta_dict == [c \in 1..nc |-> IF appended[c] = 0 THEN first ELSE appended[c]]
        metadata == [k \in 1..Len(self.metadata) |->
                        set_slice_context(self.metadata[k], slice_index, coord)]
        input_object(k) ==
            SampleMetadata(
                Overlay([zooms |-> orient_shapes_hwd(self.input_handle[k].zooms,
                                                     self.slice_axis),
                         data_shape |-> orient_shapes_hwd(self.input_handle[k].shape,
                                                          self.slice_axis),
                         data_type |-> "im",
                         crop_params |-> <<>>],
                        metadata[k]))
        objects == [id \in 1..(ngt + Len(self.metadata)) |->
                       IF id <= ngt THEN gt_object(id) ELSE input_object(id - ngt)]
    IN  IF present = {} /\ nc > 0
        THEN [self |-> self, result |-> Raised("IndexError: list index out of range")]
        ELSE [self |-> [self EXCEPT !.metadata = metadata],
              result |-> Returned([objects |-> objects,
                                   gt_metadata |-> gt_meta_dict,
                                   input_metadata |->
                                       [k \in 1..Len(self.metadata) |-> ngt + k]])]

(***************************************************************************)
(* get_pair_slice: the metadata of the slice (with the default coord),     *)
(* the decoded data, and the slice of every array along the last axis.     *)
(***************************************************************************)
\* a[..., n] of a 3D array
LastAxisSlice(a, n) ==
    LET sh == <<a.shape[1], a.shape[2]>>
    IN  Array(sh, [i \in Idx(sh) |-> a.data[<<i[1], i[2], n>>]])

\* int(np.any(a)) of a 2D slice
np_any(a) == IF \E i \in DOMAIN a.data : a.data[i] # 0 THEN 1 ELSE 0

get_pair_slice(self, slice_index, gt_type) ==
    LET m == get_pair_metadata(self, slice_index, NoneEntry)
        data == get_pair_data(m.self)
        after == AfterGetPairData(m.self)
        arrays(g) == IF g.kind = "list" THEN g.arrays ELSE <<g.array>>
        in_range(a) == slice_index < a.shape[3]
        gt_slice(a) == IF gt_type = "segmentation"
                       THEN LastAxisSlice(a, slice_index)
                       ELSE np_any(LastAxisSlice(a, slice_index))
        gt_slices(g) == IF g.kind = "list"
                        THEN [kind |-> "list",
                              slices |-> [r \in 1..Len(g.arrays) |-> gt_slice(g.arrays[r])]]
                        ELSE [kind |-> "single", slice |-> gt_slice(g.array)]
    IN  IF IsRaised(m.result)
        THEN m
        ELSE IF self.slice_axis \notin {0, 1, 2}
        THEN [self |-> after,
              result |-> Raised("RuntimeError: Invalid axis, must be between 0 and 2.")]
        ELSE IF \/ \E k \in 1..Len(data.input) : ~in_range(data.input[k])
                \/ \E c \in 1..Len(data.gt) :
                      \E r \in 1..Len(arrays(data.gt[c])) : ~in_range(arrays(data.gt[c])[r])
        THEN [self |-> after, result |-> Raised("IndexError: index out of bounds")]
        ELSE [self |-> after,
              result |-> Returned(
                  [input |-> [k \in 1..Len(data.input) |->
                                 LastAxisSlice(data.input[k], slice_index)],
                   gt |-> [c \in 1..Len(data.gt) |-> gt_slices(data.gt[c])],
                   objects |-> m.result.returned.objects,
                   input_metadata |-> m.result.returned.input_metadata,
                   gt_metadata |-> m.result.returned.gt_metadata])]

(***************************************************************************)
(* Specification SpecPair: a pair is constructed from files on disk and    *)
(* then queried any number of times for its shapes, data and metadata.     *)
(***************************************************************************)
GtEntries ==
    {NoneEntry, StrEntry("seg_rater1.nii.gz"), StrEntry("lesion.nii.gz"),
     StrEntry("seg_rotated.nii.gz"),
     ListEntry(<<"seg_rater1.nii.gz", "seg_rater2.nii.gz">>),
     ListEntry(<<"seg_rater1.nii.gz", "lesion.nii.gz">>)}

InitPair ==
    /\ pc = "start"
    /\ \E fs \in SeqsUpTo(InputFiles, 1, MaxChannels) :
       \E gts \in {NoneEntry} \cup {ListEntry(q) : q \in SeqsUpTo(GtEntries, 0, MaxClasses)} :
       \E axis \in 0..2 :
          arg = [input_filenames |-> fs,
                 gt_filenames |-> gts,
                 metadata |-> [k \in 1..Len(fs) |-> Sidecar(fs[k])],
                 slice_axis |-> axis,
                 cache |-> TRUE]
    /\ predictions = None
    /\ out = None
    /\ out2 = None
    /\ pair = None
    /\ files = None

Construct ==
    /\ pc = "start"
    /\ LET r == SegmentationPair(arg)
       IN  IF IsRaised(r)
           THEN /\ pc' = "failed"
                /\ out' = r
                /\ pair' = pair
           ELSE /\ pc' = "ready"
                /\ out' = out
                /\ pair' = r.returned
    /\ UNCHANGED <<predictions, arg, out2, files>>

Constructed == pc \notin {"start", "failed"}

GetPairShapes ==
    /\ Constructed
    /\ out' = get_pair_shapes(pair.input_handle, pair.gt_handle, pair.slice_axis)
    /\ pc' = "get_pair_shapes"
    /\ UNCHANGED <<predictions, arg, out2, pair, files>>

GetPairData ==
    /\ Constructed
    /\ out' = Returned(get_pair_data(pair))
    /\ pair' = AfterGetPairData(pair)
    /\ pc' = "get_pair_data"
    /\ UNCHANGED <<predictions, arg, out2, files>>

\* a call with the default coord; out2 keeps the arguments of the call
GetPairMetadata ==
    /\ Constructed
    /\ \E slice_index \in 0..MaxSliceIndex :
          LET r == get_pair_metadata(pair, slice_index, NoneEntry)
          IN  /\ out' = r.result
              /\ pair' = r.self
              /\ out2' = [slice_index |-> slice_index, coord |-> NoneEntry]
    /\ pc' = "get_pair_metadata"
    /\ UNCHANGED <<predictions, arg, files>>

\* the subvolume coordinates a caller passes
Coords == {TupleEntry(<<0, 0, 0>>), TupleEntry(<<0, 1, 0>>)}

\* a call for a subvolume, with the default slice_index
GetSubvolumeMetadata ==
    /\ Constructed
    /\ \E coord \in Coords :
          LET r == get_pair_metadata(pair, 0, coord)
          IN  /\ out' = r.result
              /\ pair' = r.self
              /\ out2' = [slice_index |-> 0, coord |-> coord]
    /\ pc' = "get_pair_metadata"
    /\ UNCHANGED <<predictions, arg, files>>

GetPairSlice ==
    /\ Constructed
    /\ \E slice_index \in 0..MaxSliceIndex, gt_type \in {"segmentation", "classification"} :
          LET r == get_pair_slice(pair, slice_index, gt_type)
          IN  /\ out' = r.result
              /\ pair' = r.self
              /\ out2' = [slice_index |-> slice_index, coord |-> NoneEntry]
    /\ pc' = "get_pair_slice"
    /\ UNCHANGED <<predictions, arg, files>>

NextPair == Construct \/ GetPairShapes \/ GetPairData \/ GetPairMetadata

SpecPair == InitPair /\ [][NextPair]_vars

\* Specification SpecQuery: the same with the metadata of subvolumes and
\* the slice extraction among the queries.
NextQuery == NextPair \/ GetSubvolumeMetadata \/ GetPairSlice

SpecQuery == InitPair /\ [][NextQuery]_vars

\* the classes of the constructed pair that have an annotation
PresentClasses == {c \in 1..Len(pair.gt_handle) : pair.gt_handle[c].kind # "None"}

\* the oriented shapes of the files as read by the constructor: the first
\* input and the first ground-truth volume
FirstInputShapeRead ==
    orient_shapes_hwd(read_file(arg.input_filenames[1]).shape, arg.slice_axis)

GtShapesRead ==
    IF arg.gt_filenames.kind = "None" THEN <<>>
    ELSE Flatten([c \in 1..Len(arg.gt_filenames.items) |->
                    [r \in 1..Len(Raters(GtHandle(arg.gt_filenames.items[c]))) |->
                        orient_shapes_hwd(Raters(GtHandle(arg.gt_filenames.items[c]))[r].shape,
                                          arg.slice_axis)]])

\* C1, the constructor (as claimed): constructing a pair whose input and
\* ground-truth oriented shapes differ fails and yields no object.
C1_MismatchNotConstructed ==
    (pc # "start" /\ Len(GtShapesRead) > 0 /\ FirstInputShapeRead # GtShapesRead[1]) =>
        /\ pc = "failed"
        /\ pair = None

\* C1, the query (as claimed): for a constructed pair with at least one
\* present ground-truth volume, the shape query returns an input shape
\* equal to the ground-truth shape.
C1_QueriedShapesAgree ==
    (pc = "get_pair_shapes" /\ PresentClasses # {}) =>
        /\ ~IsRaised(out)
        /\ out.returned.gt.kind = "tuple"
        /\ out.returned.input = out.returned.gt.value

\* C1 (as claimed): both halves of the claim.
C1_InputAndLabelShapesAgree == C1_MismatchNotConstructed /\ C1_QueriedShapesAgree

\* the oriented shapes of the input volumes and of the present ground truths
\* of the constructed pair
InputShapes ==
    {orient_shapes_hwd(pair.input_handle[k].shape, pair.slice_axis) :
        k \in 1..Len(pair.input_handle)}

LabelShapes ==
    UNION {{orient_shapes_hwd(Raters(pair.gt_handle[c])[r].shape, pair.slice_axis) :
               r \in 1..Len(Raters(pair.gt_handle[c]))} : c \in PresentClasses}

\* C2 (as claimed): no pair is constructed whose input volumes differ in
\* oriented shape or whose present ground-truth volumes differ in oriented
\* shape, and a shape query on such volumes raises.
C2_NoInconsistentPair ==
    Constructed =>
        /\ Cardinality(InputShapes) <= 1
        /\ Cardinality(LabelShapes) <= 1

\* the array a volume on disk yields once canonical and oriented
OrientedFile(filename, slice_axis) ==
    orient_img_hwd(get_fdata(as_closest_canonical(Disk(filename))), slice_axis)

\* C3: the data query returns one array per input channel and one entry per
\* class, in class order: the array of a single-rater class, the list of the
\* raters' arrays in rater order for a multi-rater class, and for a class
\* without annotation an all-zero array with the oriented shape of the first
\* input channel.
C3_DataQueryEntries ==
    pc = "get_pair_data" =>
        LET d == out.returned
            classes == IF arg.gt_filenames.kind = "None" THEN <<>>
                       ELSE arg.gt_filenames.items
        IN  /\ Len(d.input) = Len(arg.input_filenames)
            /\ \A k \in 1..Len(d.input) :
                  d.input[k] = OrientedFile(arg.input_filenames[k], arg.slice_axis)
            /\ Len(d.gt) = Len(classes)
            /\ \A c \in 1..Len(classes) :
                  CASE classes[c].kind = "str" ->
                          /\ d.gt[c].kind = "array"
                          /\ d.gt[c].array = OrientedFile(classes[c].name, arg.slice_axis)
                    [] classes[c].kind = "list" ->
                          /\ d.gt[c].kind = "list"
                          /\ Len(d.gt[c].arrays) = Len(classes[c].items)
                          /\ \A r \in 1..Len(classes[c].items) :
                                d.gt[c].arrays[r] =
                                    OrientedFile(classes[c].items[r], arg.slice_axis)
                    [] classes[c].kind = "None" ->
                          /\ d.gt[c].kind = "array"
                          /\ d.gt[c].array.shape = d.input[1].shape
                          /\ DOMAIN d.gt[c].array.data = Idx(d.input[1].shape)
                          /\ \A i \in Idx(d.input[1].shape) : d.gt[c].array.data[i] = 0

\* classes [two raters, absent] read along the sagittal axis
C3_Witness ==
    /\ pc = "get_pair_data"
    /\ arg.slice_axis = 0
    /\ arg.gt_filenames =
          ListEntry(<<ListEntry(<<"seg_rater1.nii.gz", "seg_rater2.nii.gz">>), NoneEntry>>)
    /\ out.returned.gt[1].kind = "list"
    /\ out.returned.gt[1].arrays[1] # out.returned.gt[1].arrays[2]
    /\ out.returned.gt[2].array.shape = <<2, 2, 1>>

\* the objects an entry of the bundle consists of: the entry's own object
\* and, for a list of raters, the objects in the list
ObjectsOf(b, id) ==
    IF b.objects[id].kind = "list" THEN {id} \cup Range(b.objects[id].items) ELSE {id}

\* two entries hold equal metadata
EqualMetadata(b, id1, id2) ==
    /\ b.objects[id1].kind = b.objects[id2].kind
    /\ IF b.objects[id1].kind = "list"
       THEN /\ Len(b.objects[id1].items) = Len(b.objects[id2].items)
            /\ \A r \in 1..Len(b.objects[id1].items) :
                  b.objects[b.objects[id1].items[r]].d = b.objects[b.objects[id2].items[r]].d
       ELSE b.objects[id1].d = b.objects[id2].d

\* C10 (as claimed): gt_metadata has one entry per class, none of them None,
\* and the entry of a class without annotation is a copy of the entry of the
\* first class that has one: equal to it, and made of objects of its own, so
\* that a change of one is not a change of the other.
C10_BackfillIsIndependentCopy ==
    (pc = "get_pair_metadata" /\ PresentClasses # {}) =>
        /\ ~IsRaised(out)
        /\ LET b == out.returned
               first == CHOOSE c \in PresentClasses : \A d \in PresentClasses : c <= d
           IN  /\ Len(b.gt_metadata) = Len(pair.gt_handle)
               /\ \A c \in 1..Len(b.gt_metadata) : b.gt_metadata[c] # 0
               /\ \A c \in (1..Len(b.gt_metadata)) \ PresentClasses :
                     /\ EqualMetadata(b, b.gt_metadata[c], b.gt_metadata[first])
                     /\ ObjectsOf(b, b.gt_metadata[c])
                            \cap ObjectsOf(b, b.gt_metadata[first]) = {}

(***************************************************************************)
(* convert_file_to_nifti.                                                  *)
(*                                                                         *)
(* A planar file is decoded to a gray-scale 2D array, given a trailing     *)
(* unit axis and an identity affine, and its zooms are computed from the   *)
(* 'PixelSize' of the first channel's metadata.  The image is then saved   *)
(* next to the source file if os.path.exists says no such file is there.   *)
(* The existence test and the save are two system calls, so that other     *)
(* processes converting the same file can run between them.                *)
(***************************************************************************)
FloatEntry(v) == [kind |-> "float", value |-> v]
IntEntry(v) == [kind |-> "int", value |-> v]

PlanarFile == "sub-03_SEM.png"

\* imed_loader_utils.update_filename_to_nifti: the same path with the
\* extension of a compressed volumetric file
update_filename_to_nifti(filename) ==
    IF filename = "sub-03_SEM.png" THEN "sub-03_SEM.nii.gz" ELSE filename

\* imageio.imread(filename, as_gray=True): a 2D gray-scale array
imread(filename) ==
    Array(<<2, 2>>, [i \in Idx(<<2, 2>>) |-> 100 * (1 + Rank(i, <<2, 2>>))])

\* np.expand_dims(a, axis=-1) of a 2D array
expand_dims(a) ==
    LET shape == <<a.shape[1], a.shape[2], 1>>
    IN  Array(shape, [i \in Idx(shape) |-> a.data[<<i[1], i[2]>>]])

MissingPixelSize == "RuntimeError: 'PixelSize' is missing from metadata"
UnsupportedPixelSize == "RuntimeError: 'PixelSize' metadata type is not supported"

array_length == {2, 3}

\* 0.001, from micrometres to millimetres
conversion_factor == 1

\* the product of two fixed-point numbers
Times(a, b) == (a * b) \div One

\* np.resize(q, n) of a 1D array: q repeated up to length n
np_resize(q, n) == [k \in 1..n |-> q[((k - 1) % Len(q)) + 1]]

\* the zooms, in millimetres, that the metadata of the first channel gives
ps_in_mm(metadata) ==
    IF "PixelSize" \in DOMAIN metadata
    THEN LET ps_in_um == metadata.PixelSize
             accepted ==
                 IF ps_in_um.kind = "list"
                 THEN IF Len(ps_in_um.items) \in array_length
                      THEN ps_in_um.items
                      ELSE <<>>
                 ELSE IF ps_in_um.kind = "float"
                      THEN <<ps_in_um.value, ps_in_um.value>>
                      ELSE <<>>
         IN  IF accepted = <<>>
             THEN Raised(UnsupportedPixelSize)
             ELSE LET resized == np_resize(accepted, 3)
                      nonzero == IF resized[3] = 0
                                 THEN [resized EXCEPT ![3] = resized[1]]
                                 ELSE resized
                  IN  Returned([k \in 1..3 |-> Times(nonzero[k], conversion_factor)])
    ELSE Raised(MissingPixelSize)

\* the image that convert_file_to_nifti builds in memory, or what it raises
convert_file_to_nifti(self, filename, extension) ==
    LET img == expand_dims(imread(filename))
        zooms == ps_in_mm(self.metadata[1])
    IN  IF IsRaised(zooms)
        THEN zooms
        ELSE Returned(Volume(img.shape, zooms.returned, <<1, 2, 3>>, img.data))

\* nib.save(img, fname_out): the file holds the image, whatever it held
nib_save(f, img) ==
    [f EXCEPT !.exists = TRUE,
              !.zooms = img.zooms,
              !.saves = @ + 1,
              !.overwrites = @ + (IF f.exists THEN 1 ELSE 0)]

(***************************************************************************)
(* Specification SpecConv: NumWorkers processes, each with its own pair    *)
(* object built from the same sidecar metadata, convert the same planar    *)
(* file.  `files` is the converted file next to the source: whether it     *)
(* exists, the zooms in its header, and how many times it was saved and    *)
(* saved over.  Pixel sizes are nonnegative.                               *)
(***************************************************************************)
Workers == 1..NumWorkers

PixelValues == {0, One, 2 * One}

PixelSizes ==
    {FloatEntry(v) : v \in PixelValues} \cup {IntEntry(v) : v \in PixelValues}
        \cup {ListEntry(q) : q \in SeqsUpTo(PixelValues, 1, MaxPixelSizeLen)}
        \cup {StrEntry("0.5")}

PlanarSidecars ==
    {[contrast |-> "SEM"]} \cup {[contrast |-> "SEM", PixelSize |-> p] : p \in PixelSizes}

InitConv ==
    /\ pc = [w \in Workers |-> "start"]
    /\ predictions = None
    /\ \E m \in PlanarSidecars : arg = [filename |-> PlanarFile, metadata |-> <<m>>]
    /\ out = [w \in Workers |-> None]
    /\ out2 = None
    /\ pair = [w \in Workers |-> [metadata |-> arg.metadata]]
    /\ \E before \in BOOLEAN :
          files = [name |-> update_filename_to_nifti(PlanarFile),
                   exists |-> before,
                   zooms |-> IF before THEN <<1, 1, 1>> ELSE <<>>,
                   saves |-> 0,
                   overwrites |-> 0]

\* the image is built and its zooms set, or the conversion raises
Convert(w) ==
    /\ pc[w] = "start"
    /\ LET r == convert_file_to_nifti(pair[w], arg.filename, "png")
       IN  /\ out' = [out EXCEPT ![w] = r]
           /\ pc' = [pc EXCEPT ![w] = IF IsRaised(r) THEN "failed" ELSE "converted"]
    /\ UNCHANGED <<predictions, arg, out2, pair, files>>

\* os.path.exists(fname_out); the image is returned if the file is there
PathExists(w) ==
    /\ pc[w] = "converted"
    /\ pc' = [pc EXCEPT ![w] = IF files.exists THEN "returned" ELSE "saving"]
    /\ UNCHANGED <<predictions, arg, out, out2, pair, files>>

\* nib.save(img, fname_out), and the image is returned
Save(w) ==
    /\ pc[w] = "saving"
    /\ files' = nib_save(files, out[w].returned)
    /\ pc' = [pc EXCEPT ![w] = "returned"]
    /\ UNCHANGED <<predictions, arg, out, out2, pair>>

NextConv == \E w \in Workers : Convert(w) \/ PathExists(w) \/ Save(w)

SpecConv == InitConv /\ [][NextConv]_vars

\* C11 (as claimed): under any interleaving of the workers converting the
\* same source file, the converted file is saved at most once and a file
\* that already exists is never saved over.
C11_SiblingWrittenAtMostOnce ==
    /\ files.saves <= 1
    /\ files.overwrites = 0

\* zooms z, in millimetres, are the micrometres um divided by 1000
IsThousandth(r, um) ==
    /\ ~IsRaised(r)
    /\ \A k \in 1..3 : r.returned.zooms[k] * 1000 = um[k]

HasRaised(r, e) == IsRaised(r) /\ r.raised = e

\* C13, the spacing (as claimed): a scalar p gives (p, p, p)/1000, [x, y]
\* gives (x, y, x)/1000, [x, y, z] gives (x, y, z)/1000 with x for a zero z.
C13_SpacingOfAccepted ==
    \A w \in Workers :
        (pc[w] # "start" /\ "PixelSize" \in DOMAIN arg.metadata[1]) =>
            LET p == arg.metadata[1].PixelSize
            IN  CASE p.kind \in {"float", "int"} ->
                        IsThousandth(out[w], <<p.value, p.value, p.value>>)
                  [] p.kind = "list" ->
                        LET q == p.items
                        IN  CASE Len(q) = 2 -> IsThousandth(out[w], <<q[1], q[2], q[1]>>)
                              [] Len(q) = 3 ->
                                    IsThousandth(out[w],
                                        <<q[1], q[2], IF q[3] = 0 THEN q[1] ELSE q[3]>>)
                              [] OTHER -> TRUE
                  [] OTHER -> TRUE

\* C13, the failures (as claimed): a missing PixelSize raises the missing
\* spacing error, and a value that is neither a scalar number nor a list of
\* 2 or 3 numbers raises the invalid spacing error.
C13_FailureOfRejected ==
    \A w \in Workers :
        pc[w] # "start" =>
            IF "PixelSize" \notin DOMAIN arg.metadata[1]
            THEN HasRaised(out[w], MissingPixelSize)
            ELSE LET p == arg.metadata[1].PixelSize
                 IN  (\/ p.kind \notin {"float", "int", "list"}
                      \/ (p.kind = "list" /\ Len(p.items) \notin {2, 3})) =>
                         HasRaised(out[w], UnsupportedPixelSize)

\* C13, positivity (as claimed): whenever the conversion succeeds the zooms
\* are strictly positive along every axis.
C13_SpacingPositive ==
    \A w \in Workers :
        pc[w] \notin {"start", "failed"} =>
            \A k \in 1..3 : out[w].returned.zooms[k] > 0

\* C13 (as claimed): the PixelSize of the first channel's metadata fixes the
\* spacing as above, is rejected as above, and every spacing of a converted
\* file is strictly positive.
C13_PixelSizeFixesSpacing ==
    /\ C13_SpacingOfAccepted
    /\ C13_FailureOfRejected
    /\ C13_SpacingPositive

(***************************************************************************)
(* The effect of the queries on the pair.                                  *)
(***************************************************************************)
Without(d, keys) == [k \in DOMAIN d \ keys |-> d[k]]

Undecoded(h) ==
    IF h.kind = "None" THEN h
    ELSE IF h.kind = "img" THEN [h EXCEPT !.img.cached = FALSE]
    ELSE [h EXCEPT !.imgs = [r \in 1..Len(@) |-> [@[r] EXCEPT !.cached = FALSE]]]

\* the pair without its caches of decoded data and without the slice_index
\* and coord of its metadata records
Static(p) ==
    [p EXCEPT !.input_handle = [k \in 1..Len(@) |-> [@[k] EXCEPT !.cached = FALSE]],
              !.gt_handle = [c \in 1..Len(@) |-> Undecoded(@[c])],
              !.metadata = [k \in 1..Len(@) |-> Without(@[k], {"slice_index", "coord"})]]

\* every metadata record holds the slice index and coord of the last call
HoldsLastCall(p, call) ==
    \A k \in 1..Len(p.metadata) :
        /\ {"slice_index", "coord"} \subseteq DOMAIN p.metadata[k]
        /\ p.metadata[k].slice_index = call.slice_index
        /\ p.metadata[k].coord = call.coord

QueryFrame ==
    Constructed =>
        /\ Static(pair') = Static(pair)
        /\ pc' = "get_pair_shapes" => pair' = pair
        /\ pc' = "get_pair_data" => pair'.metadata = pair.metadata
        /\ pc' = "get_pair_metadata" =>
              [pair' EXCEPT !.metadata = pair.metadata] = pair

\* C12 (as claimed): after construction a query changes nothing of the pair
\* but the caches of decoded data and the slice_index and coord of the
\* metadata records; the shape query changes nothing at all, the data query
\* the caches only, the metadata query the metadata only; and after a
\* metadata or slice-extraction call every metadata record holds the slice
\* index and coord of that call.
C12_QueriesKeepPair ==
    [][/\ QueryFrame
       /\ (Constructed /\ pc' \in {"get_pair_metadata", "get_pair_slice"}) =>
              HoldsLastCall(pair', out2')]_vars

BackfillError == "IndexError: list index out of range"

\* what the queries do keep: the same, but for a call that raises in the
\* back-fill of the class metadata, which has changed nothing when it
\* raises; a slice extraction that raises for an index out of range has
\* written its slice index and coord
C12_QueriesKeepPairOrRaise ==
    [][/\ QueryFrame
       /\ (Constructed /\ pc' \in {"get_pair_metadata", "get_pair_slice"}) =>
              IF HasRaised(out', BackfillError)
              THEN pair' = pair
              ELSE HoldsLastCall(pair', out2')]_vars

(***************************************************************************)
(* Specification SpecSoft: fill_holes and keep_largest_object on soft      *)
(* (non-binary) 2D arrays.  The arrays are the sparse 3x3 ones of          *)
(* SpecKeep, and 3x4 arrays that are soft foreground everywhere but on at  *)
(* most MaxBg voxels, which are zero or nonzero under the cut-off.         *)
(***************************************************************************)
SoftShape == <<3, 4>>

SoftStructures == {<<3, 3>>}

\* arrays whose voxels are Half (the first one Half or One) but for at most
\* n voxels, of value 0 or -Half
SoftSolidArrays(shape, n) ==
    UNION { {Array(shape, [i \in Idx(shape) |->
                              IF i \in S THEN lo[i]
                              ELSE IF Rank(i, shape) = 0 THEN first ELSE Half]) :
                lo \in [S -> {0, -Half}], first \in {Half, One}} :
            S \in SubsetsUpTo(Idx(shape), n) }

SoftInputs ==
    {a \in SoftSolidArrays(SoftShape, MaxBg) \cup SparseArrays(<<3, 3>>, KeepValues, MaxFg) :
        ~IsBinary(a)}

InitSoft ==
    /\ pc = "start"
    /\ predictions \in SoftInputs
    /\ arg \in SoftStructures
    /\ out = None
    /\ out2 = None
    /\ pair = None
    /\ files = None

SoftFillHoles ==
    /\ pc = "start"
    /\ out' = fill_holes(predictions, arg)
    /\ pc' = "fill_holes"
    /\ UNCHANGED <<predictions, arg, out2, pair, files>>

SoftKeepLargest ==
    /\ pc = "start"
    /\ out' = keep_largest_object(predictions)
    /\ pc' = "keep_largest_object"
    /\ UNCHANGED <<predictions, arg, out2, pair, files>>

NextSoft == SoftFillHoles \/ SoftKeepLargest

SpecSoft == InitSoft /\ [][NextSoft]_vars

\* the call has returned an array (fill_holes has not failed its assertion)
SoftReturned ==
    \/ pc = "keep_largest_object"
    \/ pc = "fill_holes" /\ Len(arg) = Len(predictions.shape)

\* C14: on a soft input every output voxel of fill_holes and of
\* keep_largest_object is 0 or the input value of that voxel: a zero voxel
\* stays zero, also inside a hole that the binary mask has filled, and a
\* kept voxel keeps its value.
C14_SoftOutputIsZeroOrInput ==
    (SoftReturned /\ ~IsBinary(predictions)) =>
        /\ out.shape = predictions.shape
        /\ \A i \in Idx(predictions.shape) :
              /\ out.data[i] \in {0, predictions.data[i]}
              /\ predictions.data[i] = 0 => out.data[i] = 0

\* fill_holes on a soft input with an enclosed zero voxel that the filled
\* binary mask covers: the voxel is still 0, the soft values around it and
\* an enclosed value under the cut-off are kept
C14_Witness ==
    /\ pc = "fill_holes"
    /\ Len(arg) = Len(predictions.shape)
    /\ ~IsBinary(predictions)
    /\ LET filled == binary_fill_holes(threshold_predictions(predictions, LowThr), arg)
       IN  \E i, j, k \in Idx(predictions.shape) :
              /\ predictions.data[i] = 0 /\ filled.data[i] = One /\ out.data[i] = 0
              /\ predictions.data[j] = Half /\ out.data[j] = Half
              /\ predictions.data[k] = -Half /\ filled.data[k] = One /\ out.data[k] = -Half

=============================================================================
